---- MODULE Spec2Model ----
(***************************************************************************)
(* Shape and type inference of the reduction operators of                  *)
(* onnx/defs/reduction/defs.cc: the Reduce* family (axes, keepdims) and    *)
(* the ArgMax/ArgMin family (axis, keepdims).                              *)
(*                                                                         *)
(* A behaviour is: the static registration of the operator schemas in file *)
(* order, then the construction of one inference context (attributes,      *)
(* input type, output type slot), then invocations of the inference rule   *)
(* the context's operator was registered with.                             *)
(***************************************************************************)
EXTENDS Integers, Sequences, FiniteSets, TLC

(* ------------------------------ bounds -------------------------------- *)

\* largest rank of the enumerated input shapes
MaxRank == 3

\* longest enumerated "axes" attribute list
MaxAxes == 2

\* invocations of the rule on one context
MaxCalls == 2

(* ------------------------- protobuf messages -------------------------- *)

\* TensorShapeProto.Dimension, a oneof of dim_value and dim_param
DimValue(n) == [value_case |-> "kDimValue", dim_value |-> n, dim_param |-> ""]

DimParam(s) == [value_case |-> "kDimParam", dim_value |-> 0, dim_param |-> s]

\* TypeProto with no member of its oneof set
EmptyType ==
  [value_case |-> "VALUE_NOT_SET", elem_type |-> "UNDEFINED",
   has_shape |-> FALSE, dim |-> <<>>]

\* TypeProto holding a member of the oneof other than tensor_type
OtherType ==
  [value_case |-> "kOtherType", elem_type |-> "UNDEFINED",
   has_shape |-> FALSE, dim |-> <<>>]

\* TypeProto::mutable_tensor_type(): selects tensor_type in the oneof; a
\* member of another kind is cleared and a default TensorTypeProto created
mutable_tensor_type(t) ==
  IF t.value_case = "kTensorType"
    THEN t
    ELSE [value_case |-> "kTensorType", elem_type |-> "UNDEFINED",
          has_shape |-> FALSE, dim |-> <<>>]

\* TensorTypeProto::set_elem_type
set_elem_type(t, e) == [t EXCEPT !.elem_type = e]

\* TensorTypeProto::mutable_shape(): creates the shape when it is absent
mutable_shape(t) == [t EXCEPT !.has_shape = TRUE]

(* ----------------------- enumerated inputs ---------------------------- *)

Dims == {DimValue(2), DimParam("N")}

ScenarioShapes ==
  { <<DimValue(2), DimValue(3), DimValue(4)>>, <<DimValue(5), DimValue(6)>> }

InputShapes == UNION {[1..n -> Dims] : n \in 0..MaxRank} \cup ScenarioShapes

\* axis values in and out of the range of the enumerated ranks, of both signs
AxisVals == (-4)..3

AxesLists == UNION {[1..n -> AxisVals] : n \in 0..MaxAxes}

KeepDimsVals == {0, 1, 2}

InputElemTypes == {"FLOAT", "INT32"}

\* what the output type slot may hold when the rule is invoked
OutputSlots ==
  { EmptyType,
    OtherType,
    [value_case |-> "kTensorType", elem_type |-> "DOUBLE",
     has_shape |-> TRUE, dim |-> <<DimValue(7)>>] }

\* the inference context before one is constructed
NoCtx ==
  [rule |-> "none", in_elem |-> "UNDEFINED", has_shape |-> FALSE,
   in_dims |-> <<>>, has_axes |-> FALSE, axes |-> <<>>, has_axis |-> FALSE,
   axis |-> 0, has_keepdims |-> FALSE, keepdims |-> 0]

(* --------------------------- registration ----------------------------- *)

\* ReduceSchemas with the ReduceSum registration repeated
ReduceSchemas_SumTwice ==
  << "ReduceMax", "ReduceMin", "ReduceSum", "ReduceSum", "ReduceSumSquare",
     "ReduceMean", "ReduceProd", "ReduceLogSum", "ReduceLogSumExp",
     "ReduceL1", "ReduceL2" >>

ReduceSchemas ==
  << "ReduceMax", "ReduceMin", "ReduceSum", "ReduceSumSquare", "ReduceMean",
     "ReduceProd", "ReduceLogSum", "ReduceLogSumExp", "ReduceL1", "ReduceL2" >>

ArgReduceSchemas == << "ArgMax", "ArgMin" >>

\* the static registrations of the translation unit, in file order
Schemas ==
  [k \in 1..(Len(ReduceSchemas) + Len(ArgReduceSchemas)) |->
     IF k <= Len(ReduceSchemas)
       THEN [name |-> ReduceSchemas[k], rule |-> "Reduce"]
       ELSE [name |-> ArgReduceSchemas[k - Len(ReduceSchemas)],
             rule |-> "ArgReduce"]]

VARIABLES registry, ctx, out, prev, calls

vars == <<registry, ctx, out, prev, calls>>

RegistrationDone == Len(registry) = Len(Schemas)

(* ------------------------ context accessors --------------------------- *)

\* hasNInputShapes(ctx, 1)
hasNInputShapes(c) == c.has_shape

\* propagateElemTypeFromInputToOutput(ctx, 0, 0)
propagateElemTypeFromInputToOutput(c, o) ==
  set_elem_type(mutable_tensor_type(o), c.in_elem)

\* keep_dims = 1, replaced by the attribute when it is present
KeepDimsAttr(c) == IF c.has_keepdims THEN c.keepdims ELSE 1

(* ----------------------- Reduce* inference rule ----------------------- *)

\* ReduceAxes without the loop that adds input_ndim to negative entries
ReduceAxes_NoNormalize(c, input_ndim) ==
  IF c.has_axes THEN c.axes ELSE <<>>

\* ReduceAxes adding input_ndim to the first entry only
ReduceAxes_FirstOnly(c, input_ndim) ==
  LET axes == IF c.has_axes THEN c.axes ELSE <<>>
  IN  [k \in 1..Len(axes) |->
         IF k = 1 /\ axes[k] < 0 THEN axes[k] + input_ndim ELSE axes[k]]

\* axes.assign(...) when the attribute is present, then axes[i] += input_ndim
\* for every negative entry
ReduceAxes(c, input_ndim) ==
  LET axes == IF c.has_axes THEN c.axes ELSE <<>>
  IN  [k \in 1..Len(axes) |->
         IF axes[k] < 0 THEN axes[k] + input_ndim ELSE axes[k]]

\* std::find(axes.begin(), axes.end(), i) == axes.end()
NotFound(axes, i) == \A k \in 1..Len(axes) : axes[k] # i

\* ReduceStep without the test that an empty axes list reduces every axis
ReduceStep_NoEmptyTest(dims, input_dims, axes, keep_dims, i) ==
  IF NotFound(axes, i)
    THEN Append(dims, input_dims[i + 1])
    ELSE IF keep_dims = 1 THEN Append(dims, DimValue(1)) ELSE dims

\* one iteration of the reduce loop for axis i (0-based)
ReduceStep(dims, input_dims, axes, keep_dims, i) ==
  IF axes # <<>> /\ NotFound(axes, i)
    THEN Append(dims, input_dims[i + 1])
    ELSE IF keep_dims = 1 THEN Append(dims, DimValue(1)) ELSE dims

RECURSIVE ReduceLoop(_, _, _, _, _)
\* for (int i = 0; i < input_ndim; ++i), from iteration i on
ReduceLoop(dims, input_dims, axes, keep_dims, i) ==
  IF i >= Len(input_dims)
    THEN dims
    ELSE ReduceLoop(ReduceStep(dims, input_dims, axes, keep_dims, i),
                    input_dims, axes, keep_dims, i + 1)

\* ReduceInference creating the output shape before the input-shape test
ReduceInference_ShapeFirst(c, o) ==
  LET typed  == propagateElemTypeFromInputToOutput(c, o)
      shaped == mutable_shape(mutable_tensor_type(typed))
  IN  IF ~hasNInputShapes(c)
        THEN shaped
        ELSE [shaped EXCEPT !.dim =
                ReduceLoop(shaped.dim, c.in_dims,
                           ReduceAxes(c, Len(c.in_dims)), KeepDimsAttr(c), 0)]

\* the TypeAndShapeInferenceFunction of ReduceDocGenerator
ReduceInference(c, o) ==
  LET typed == propagateElemTypeFromInputToOutput(c, o)
  IN  IF ~hasNInputShapes(c)
        THEN typed
        ELSE LET shaped == mutable_shape(mutable_tensor_type(typed))
                 axes   == ReduceAxes(c, Len(c.in_dims))
             IN  [shaped EXCEPT !.dim =
                    ReduceLoop(shaped.dim, c.in_dims, axes, KeepDimsAttr(c), 0)]

(* -------------------- ArgMax/ArgMin inference rule -------------------- *)

\* ArgReduceElemType writing a 32-bit integer element type
ArgReduceElemType_Int32(o) ==
  IF o.value_case = "kTensorType" \/ o.value_case = "VALUE_NOT_SET"
    THEN set_elem_type(mutable_tensor_type(o), "INT32")
    ELSE o

\* the guarded write of the output element type
ArgReduceElemType(o) ==
  IF o.value_case = "kTensorType" \/ o.value_case = "VALUE_NOT_SET"
    THEN set_elem_type(mutable_tensor_type(o), "INT64")
    ELSE o

\* ArgReduceAxis without the addition of input_ndim to a negative axis
ArgReduceAxis_NoNormalize(c, input_ndim) ==
  IF c.has_axis THEN c.axis ELSE 0

\* axis = 0, replaced by the attribute when present, plus input_ndim when the
\* attribute is negative
ArgReduceAxis(c, input_ndim) ==
  IF c.has_axis
    THEN IF c.axis < 0 THEN c.axis + input_ndim ELSE c.axis
    ELSE 0

\* ArgReduceStep keeping the selected axis whatever keepdims is
ArgReduceStep_AlwaysKeep(dims, input_dims, axis, keep_dims, i) ==
  IF i # axis
    THEN Append(dims, input_dims[i + 1])
    ELSE Append(dims, DimValue(1))

\* one iteration of the arg-reduce loop for axis i (0-based)
ArgReduceStep(dims, input_dims, axis, keep_dims, i) ==
  IF i # axis
    THEN Append(dims, input_dims[i + 1])
    ELSE IF keep_dims = 1 THEN Append(dims, DimValue(1)) ELSE dims

RECURSIVE ArgReduceLoop(_, _, _, _, _)
\* for (int i = 0; i < input_ndim; ++i), from iteration i on
ArgReduceLoop(dims, input_dims, axis, keep_dims, i) ==
  IF i >= Len(input_dims)
    THEN dims
    ELSE ArgReduceLoop(ArgReduceStep(dims, input_dims, axis, keep_dims, i),
                       input_dims, axis, keep_dims, i + 1)

\* ArgReduceInference clearing the output dimensions before the loop
ArgReduceInference_ClearFirst(c, o) ==
  LET typed == ArgReduceElemType(o)
  IN  IF ~hasNInputShapes(c)
        THEN typed
        ELSE LET shaped == mutable_shape(mutable_tensor_type(typed))
             IN  [shaped EXCEPT !.dim =
                    ArgReduceLoop(<<>>, c.in_dims,
                                  ArgReduceAxis(c, Len(c.in_dims)),
                                  KeepDimsAttr(c), 0)]

\* the TypeAndShapeInferenceFunction of ArgReduceDocGenerator
ArgReduceInference(c, o) ==
  LET typed == ArgReduceElemType(o)
  IN  IF ~hasNInputShapes(c)
        THEN typed
        ELSE LET shaped == mutable_shape(mutable_tensor_type(typed))
                 axis   == ArgReduceAxis(c, Len(c.in_dims))
             IN  [shaped EXCEPT !.dim =
                    ArgReduceLoop(shaped.dim, c.in_dims, axis,
                                  KeepDimsAttr(c), 0)]

(* ------------------------------ actions ------------------------------- *)

Init ==
  /\ registry = <<>>
  /\ ctx = NoCtx
  /\ out = EmptyType
  /\ prev = EmptyType
  /\ calls = 0

\* the next ONNX_OPERATOR_SCHEMA(...).FillUsing(...) of the file
Register ==
  /\ Len(registry) < Len(Schemas)
  /\ registry' = Append(registry, Schemas[Len(registry) + 1])
  /\ UNCHANGED <<ctx, out, prev, calls>>

\* a node of a Reduce* operator gets its inference context
NewReduceContext ==
  /\ RegistrationDone
  /\ ctx = NoCtx
  /\ {s \in 1..Len(registry) : registry[s].rule = "Reduce"} # {}
  /\ \E e \in InputElemTypes, hs \in BOOLEAN, sh \in InputShapes,
        ha \in BOOLEAN, ax \in AxesLists,
        hk \in BOOLEAN, kd \in KeepDimsVals, o \in OutputSlots :
       /\ ~hs => sh = <<>>
       /\ ~ha => ax = <<>>
       /\ ~hk => kd = 0
       /\ ctx' = [rule |-> "Reduce", in_elem |-> e, has_shape |-> hs,
                  in_dims |-> sh, has_axes |-> ha, axes |-> ax,
                  has_axis |-> FALSE, axis |-> 0,
                  has_keepdims |-> hk, keepdims |-> kd]
       /\ out' = o
       /\ prev' = o
  /\ UNCHANGED <<registry, calls>>

\* a node of ArgMax or ArgMin gets its inference context
NewArgReduceContext ==
  /\ RegistrationDone
  /\ ctx = NoCtx
  /\ {s \in 1..Len(registry) : registry[s].rule = "ArgReduce"} # {}
  /\ \E e \in InputElemTypes, hs \in BOOLEAN, sh \in InputShapes,
        ha \in BOOLEAN, a \in AxisVals,
        hk \in BOOLEAN, kd \in KeepDimsVals, o \in OutputSlots :
       /\ ~hs => sh = <<>>
       /\ ~ha => a = 0
       /\ ~hk => kd = 0
       /\ ctx' = [rule |-> "ArgReduce", in_elem |-> e, has_shape |-> hs,
                  in_dims |-> sh, has_axes |-> FALSE, axes |-> <<>>,
                  has_axis |-> ha, axis |-> a,
                  has_keepdims |-> hk, keepdims |-> kd]
       /\ out' = o
       /\ prev' = o
  /\ UNCHANGED <<registry, calls>>

\* one invocation of the Reduce* rule on the context
ReduceInfer ==
  /\ ctx.rule = "Reduce"
  /\ calls < MaxCalls
  /\ prev' = out
  /\ out' = ReduceInference(ctx, out)
  /\ calls' = calls + 1
  /\ UNCHANGED <<registry, ctx>>

\* one invocation of the ArgMax/ArgMin rule on the context
ArgReduceInfer ==
  /\ ctx.rule = "ArgReduce"
  /\ calls < MaxCalls
  /\ prev' = out
  /\ out' = ArgReduceInference(ctx, out)
  /\ calls' = calls + 1
  /\ UNCHANGED <<registry, ctx>>

Next ==
  \/ Register
  \/ NewReduceContext
  \/ NewArgReduceContext
  \/ ReduceInfer
  \/ ArgReduceInfer

Spec == Init /\ [][Next]_vars

(* ===================== properties of the two rules ==================== *)

\* rank of the context's input shape
Rank == Len(ctx.in_dims)

\* the effective keepdims of the context (1 when the attribute is absent)
KeepDims == IF ctx.has_keepdims THEN ctx.keepdims ELSE 1

\* one invocation has run, on a known input shape and an output without dims
ReduceOnce ==
  /\ ctx.rule = "Reduce" /\ calls = 1 /\ ctx.has_shape /\ prev.dim = <<>>

ArgReduceOnce ==
  /\ ctx.rule = "ArgReduce" /\ calls = 1 /\ ctx.has_shape /\ prev.dim = <<>>

\* the axes entries after a < 0 is replaced by a + rank
NormalizedAxes ==
  { IF ctx.axes[k] < 0 THEN ctx.axes[k] + Rank ELSE ctx.axes[k] :
      k \in 1..Len(ctx.axes) }

\* the input axes the reduce rule reduces: every axis when the list is absent
\* or empty, else the axes of the input that occur in the normalized list
ReducedAxes ==
  IF ctx.axes = <<>> THEN 0..(Rank - 1)
                     ELSE NormalizedAxes \cap (0..(Rank - 1))

\* the input axes the reduce rule copies
CopiedAxes == (0..(Rank - 1)) \ ReducedAxes

\* the normalized axis of the arg-reduce rule
NormalizedAxis ==
  IF ~ctx.has_axis THEN 0
  ELSE IF ctx.axis < 0 THEN ctx.axis + Rank ELSE ctx.axis

(* ---- C1 ---- *)

\* C1 as stated: after one invocation of the reduce rule on a known input
\* shape of rank r and an empty output shape, with keepdims in {0,1}, the
\* output rank is r for keepdims=1 and, for keepdims=0, r minus the number of
\* distinct normalized axes (r minus r when axes is omitted or empty), for
\* any axes list.
C1_RankMinusNormalizedAxes ==
  (ReduceOnce /\ KeepDims \in {0, 1}) =>
    Len(out.dim) =
      IF KeepDims = 1 THEN Rank
      ELSE IF ctx.axes = <<>> THEN 0
      ELSE Rank - Cardinality(NormalizedAxes)

\* C1 amended: the output rank is r for keepdims=1 and, for keepdims=0, r
\* minus the number of distinct input axes in [0,r) that occur among the
\* normalized axes, all r axes counting as selected when axes is omitted or
\* an empty list.
C1_ReduceRank ==
  (ReduceOnce /\ KeepDims \in {0, 1}) =>
    Len(out.dim) =
      IF KeepDims = 1 THEN Rank ELSE Rank - Cardinality(ReducedAxes)

\* a reduce invocation with keepdims=0 whose axes list holds an entry in
\* range and an entry that stays out of range after normalization
C1_Witness ==
  /\ ReduceOnce /\ KeepDims = 0 /\ Rank = 3
  /\ ctx.axes = <<1, -4>>
  /\ Len(out.dim) = 2

(* ---- C2 ---- *)

\* C2: the reduce rule visits the input axes in increasing order; an axis not
\* in the non-empty normalized axes list contributes a copy of its input
\* dimension, every other axis a concrete 1 when keepdims = 1 and nothing
\* when keepdims = 0; [2,3,4] with axes=[1] gives [2,1,4] / [2,4], and with
\* axes omitted and keepdims=0 the rank-0 shape [].
C2_ReduceDims ==
  ReduceOnce =>
    /\ out.has_shape
    /\ KeepDims = 1 =>
         /\ Len(out.dim) = Rank
         /\ \A i \in 0..(Rank - 1) :
              out.dim[i + 1] = IF i \in CopiedAxes THEN ctx.in_dims[i + 1]
                                                   ELSE DimValue(1)
    /\ KeepDims = 0 =>
         /\ Len(out.dim) = Cardinality(CopiedAxes)
         /\ \A i \in CopiedAxes :
              out.dim[1 + Cardinality({j \in CopiedAxes : j < i})]
                = ctx.in_dims[i + 1]
    /\ ctx.in_dims = <<DimValue(2), DimValue(3), DimValue(4)>> =>
         /\ (ctx.axes = <<1>> /\ KeepDims = 1) =>
              out.dim = <<DimValue(2), DimValue(1), DimValue(4)>>
         /\ (ctx.axes = <<1>> /\ KeepDims = 0) =>
              out.dim = <<DimValue(2), DimValue(4)>>
         /\ (~ctx.has_axes /\ KeepDims = 0) => out.dim = <<>>

\* a reduce invocation that copied a symbolic dimension past a dropped axis
C2_Witness ==
  /\ ReduceOnce /\ KeepDims = 0
  /\ ctx.in_dims = <<DimValue(2), DimValue(2), DimParam("N")>>
  /\ ctx.axes = <<-2>>
  /\ out.dim = <<DimValue(2), DimParam("N")>>

(* ---- C3 ---- *)

\* C3 as stated: after one invocation of the arg-reduce rule on a known input
\* shape of rank r >= 1 and an empty output shape, the output rank is r for
\* keepdims=1 and r-1 for keepdims=0, for any integer axis.
C3_RankMinusOne ==
  (ArgReduceOnce /\ Rank >= 1 /\ KeepDims \in {0, 1}) =>
    Len(out.dim) = IF KeepDims = 1 THEN Rank ELSE Rank - 1

\* C3 amended: the output rank is r for keepdims=1; for keepdims=0 it is r-1
\* when the normalized axis lies in [0,r) and r when it does not.
C3_ArgReduceRank ==
  (ArgReduceOnce /\ Rank >= 1 /\ KeepDims \in {0, 1}) =>
    Len(out.dim) =
      IF KeepDims = 0 /\ NormalizedAxis \in 0..(Rank - 1) THEN Rank - 1
                                                           ELSE Rank

\* an arg-reduce invocation with keepdims=0 whose axis is out of range
C3_Witness ==
  /\ ArgReduceOnce /\ KeepDims = 0 /\ Rank = 2
  /\ ctx.has_axis /\ ctx.axis = 2
  /\ Len(out.dim) = 2

(* ---- C4 ---- *)

\* C4: the arg-reduce rule visits the input axes in increasing order; every
\* axis other than the normalized axis contributes a copy of its input
\* dimension, the normalized axis a concrete 1 when keepdims = 1 and nothing
\* otherwise; [5,6] with axis=-1 and keepdims=0 gives [5] with element type
\* int64.
C4_ArgReduceDims ==
  ArgReduceOnce =>
    LET Copied == (0..(Rank - 1)) \ {NormalizedAxis}
    IN  /\ out.has_shape
        /\ KeepDims = 1 =>
             /\ Len(out.dim) = Rank
             /\ \A i \in 0..(Rank - 1) :
                  out.dim[i + 1] = IF i \in Copied THEN ctx.in_dims[i + 1]
                                                   ELSE DimValue(1)
        /\ KeepDims # 1 =>
             /\ Len(out.dim) = Cardinality(Copied)
             /\ \A i \in Copied :
                  out.dim[1 + Cardinality({j \in Copied : j < i})]
                    = ctx.in_dims[i + 1]
        /\ ( /\ ctx.in_dims = <<DimValue(5), DimValue(6)>>
             /\ ctx.has_axis /\ ctx.axis = -1 /\ KeepDims = 0 ) =>
             /\ out.dim = <<DimValue(5)>>
             /\ prev.value_case # "kOtherType" => out.elem_type = "INT64"

\* the scenario of C4 has run on an empty output type slot
C4_Witness ==
  /\ ArgReduceOnce /\ KeepDims = 0
  /\ ctx.in_dims = <<DimValue(5), DimValue(6)>>
  /\ ctx.has_axis /\ ctx.axis = -1
  /\ prev = EmptyType
  /\ out.dim = <<DimValue(5)>> /\ out.elem_type = "INT64"

(* ---- C5 ---- *)

\* the context with every negative axis / axes entry a replaced by a + rank
Renormalized ==
  [ctx EXCEPT
     !.axis = IF ctx.axis < 0 THEN ctx.axis + Rank ELSE ctx.axis,
     !.axes = [k \in 1..Len(ctx.axes) |->
                 IF ctx.axes[k] < 0 THEN ctx.axes[k] + Rank ELSE ctx.axes[k]]]

\* the context has a negative axis (arg-reduce) or axes entry (reduce)
HasNegativeAxis ==
  \/ ctx.rule = "ArgReduce" /\ ctx.has_axis /\ ctx.axis < 0
  \/ ctx.rule = "Reduce" /\ \E k \in 1..Len(ctx.axes) : ctx.axes[k] < 0

\* every negative axis / axes entry a of the context has a + rank >= 0
NegativeAxesInRange ==
  /\ ctx.axis < 0 => ctx.axis + Rank >= 0
  /\ \A k \in 1..Len(ctx.axes) : ctx.axes[k] < 0 => ctx.axes[k] + Rank >= 0

\* the output the context's rule gives for context c from output slot o
RuleOutput(c, o) ==
  IF c.rule = "Reduce" THEN ReduceInference(c, o) ELSE ArgReduceInference(c, o)

\* C5 as stated: for a fixed input shape of rank r and fixed keepdims, an
\* invocation with a negative axis a (or an axes list with negative entries)
\* gives the same output shape and type as the invocation with a + r in its
\* place.
C5_NegativeEqualsPlusRank ==
  (calls = 1 /\ ctx.has_shape /\ HasNegativeAxis) =>
    out = RuleOutput(Renormalized, prev)

\* C5 amended: the equivalence holds for negative axes a with a + r >= 0,
\* that is for -r <= a < 0.
C5_NormalizationEquivalence ==
  (calls = 1 /\ ctx.has_shape /\ HasNegativeAxis /\ NegativeAxesInRange) =>
    out = RuleOutput(Renormalized, prev)

\* the arg-reduce rule has run with a negative axis that normalizes into
\* range and dropped the axis it selects
C5_Witness ==
  /\ calls = 1 /\ ctx.has_shape /\ HasNegativeAxis /\ NegativeAxesInRange
  /\ ctx.rule = "ArgReduce" /\ ctx.axis = -1
  /\ KeepDims = 0 /\ Rank = 2 /\ prev.dim = <<>>
  /\ Len(out.dim) = 1

(* ---- C6 ---- *)

\* C6: when the shape of input 0 is not available an invocation adds no
\* dimension to the output and creates no shape, while the element type is
\* still propagated: the input's element type for the reduce rule, int64 for
\* the arg-reduce rule (on an output slot that is empty or a tensor type).
C6_UnknownInputShape ==
  (calls >= 1 /\ ~ctx.has_shape) =>
    /\ out.has_shape = prev.has_shape
    /\ out.dim = prev.dim
    /\ ctx.rule = "Reduce" =>
         out.value_case = "kTensorType" /\ out.elem_type = ctx.in_elem
    /\ (ctx.rule = "ArgReduce" /\ prev.value_case # "kOtherType") =>
         out.value_case = "kTensorType" /\ out.elem_type = "INT64"

\* a rule has run on an unknown input shape and an empty output slot, and
\* left the output a tensor type without shape
C6_Witness ==
  /\ calls = 1 /\ ~ctx.has_shape /\ prev = EmptyType
  /\ out.value_case = "kTensorType" /\ ~out.has_shape
  /\ out.elem_type # "UNDEFINED"

(* ---- C7 ---- *)

\* C7 as stated: after any invocation, whatever the output type slot held
\* before, the reduce output element type is the input element type and the
\* arg-reduce output element type is int64.
C7_ElemTypeAlways ==
  calls >= 1 =>
    /\ ctx.rule = "Reduce" =>
         out.value_case = "kTensorType" /\ out.elem_type = ctx.in_elem
    /\ ctx.rule = "ArgReduce" =>
         out.value_case = "kTensorType" /\ out.elem_type = "INT64"

\* C7 amended: the reduce output element type is the input element type; the
\* arg-reduce output element type is int64 whenever the output type slot was
\* empty or a tensor type before the invocation.
C7_ElemType ==
  calls >= 1 =>
    /\ ctx.rule = "Reduce" =>
         out.value_case = "kTensorType" /\ out.elem_type = ctx.in_elem
    /\ (ctx.rule = "ArgReduce" /\ prev.value_case # "kOtherType") =>
         out.value_case = "kTensorType" /\ out.elem_type = "INT64"

\* the arg-reduce rule has overwritten a pre-set element type with int64
C7_Witness ==
  /\ calls = 1 /\ ctx.rule = "ArgReduce"
  /\ prev.value_case = "kTensorType" /\ prev.elem_type = "DOUBLE"
  /\ ctx.in_elem = "FLOAT"
  /\ out.elem_type = "INT64"

(* ---- C8 ---- *)

\* C8: an arg-reduce invocation on an output type slot that holds a
\* non-tensor type category does not replace it with a tensor type, whether
\* or not the input shape is known.
C8_NonTensorKept ==
  (calls >= 1 /\ ctx.rule = "ArgReduce" /\ prev.value_case = "kOtherType") =>
    out.value_case # "kTensorType"

(* ---- C9 ---- *)

\* the registered schemas attached to the given rule
RegisteredWith(rule) == {k \in 1..Len(registry) : registry[k].rule = rule}

\* no operator name is registered twice
RegisteredOnce ==
  \A j, k \in 1..Len(registry) :
    registry[j].name = registry[k].name => j = k

C10_ShapeIgnoresPriorOutput ==
  (calls >= 1 /\ ctx.has_shape) =>
    out.dim = RuleOutput(ctx, EmptyType).dim

\* C10 amended: an invocation appends to the dimensions the output shape
\* already holds the dimensions it gives on an empty output; the result equals
\* that of one invocation on an empty output only when the output shape held
\* no dimension before.
C10_ShapeAppendsToPriorOutput ==
  (calls >= 1 /\ ctx.has_shape) =>
    /\ out.dim = prev.dim \o RuleOutput(ctx, EmptyType).dim
    /\ prev.dim = <<>> => out.dim = RuleOutput(ctx, EmptyType).dim

\* a second invocation has run on the output of the first
C10_Witness ==
  /\ calls = 2 /\ ctx.has_shape /\ Rank = 2 /\ KeepDims = 1
  /\ Len(prev.dim) = 2
  /\ Len(out.dim) = 4

====
